---- MODULE Spec2Model ----
(***************************************************************************)
(* Neighbour selection, threshold graph construction and mz-overlap        *)
(* similarity of matchms:                                                  *)
(*   IntersectMz.__call__       src/matchms/similarity/IntersectMz.py      *)
(*   calculate_similarities     src/matchms/helper_functions.py            *)
(*   create_distance_network    src/matchms/helper_functions.py            *)
(* Floating point distances are modelled by small naturals (only their     *)
(* order, equality and the value 1 - d matter to the code); a score        *)
(* len(a) / len(b) is kept as the exact fraction.                          *)
(***************************************************************************)
EXTENDS Integers, Sequences, FiniteSets, TLC

\* ------------------------------------------------------------------ bounds

\* mz values are 1..MaxMz, a spectrum holds at most MaxPeaks peaks
MaxMz == 3
MaxPeaks == 2
\* calculate_similarities: at most MaxVectors vectors, distances 0..MaxCdist
MaxVectors == 3
MaxCdist == 1
\* create_distance_network: at most MaxNodes rows and MaxCols columns, distances
\* 0..MaxDist, cutoff_dist in 1..MaxDist + 1, max_/min_connections in 0..MaxConn
MaxNodes == 3
MaxCols == 2
MaxDist == 1
MaxConn == 2

VARIABLES
    \* IntersectMz
    peaks_mz,               \* spectrum name -> its peaks.mz array
    scores,                 \* (spectrum, reference) -> the value returned, per call made
    \* calculate_similarities
    num_vectors,            \* cdist.shape[0]
    num_hits,               \* the num_hits argument
    sim_i,                  \* the loop variable i of line 215 (rows done so far)
    cdist_row,              \* cdist[i, :] of the row handled last
    list_similars_ids_row,  \* list_similars_ids[i, :] of the row handled last
    list_similars_row,      \* list_similars[i, :] of the row handled last
    sim_status,             \* "start", "loop", "returned" or "error" ("idle": no call)
    \* create_distance_network
    dimension,              \* cdistances_ids.shape[0]
    ncols,                  \* cdistances_ids.shape[1]
    dist_shape,             \* cdistances.shape
    cutoff_dist,
    max_connections,
    min_connections,
    net_i,                  \* the loop variable i of line 104 (nodes done so far)
    bnet_nodes,             \* bnet's nodes
    bnet_edges,             \* bnet's edges: {u, v} -> weight
    ids_row,                \* cdistances_ids[i, :] of the node handled last
    dist_row,               \* cdistances[i, :] of the node handled last
    new_edges,              \* new_edges of the node handled last (line 111)
    net_status,             \* "start", "loop", "returned" or "error" ("idle": no call)
    graphml,                \* the graph written and returned (lines 117-118)
    ids_rows_distinct,      \* history: no row read so far repeats a neighbor id
    readded                 \* history: the last pass wrote an edge that existed

mzVars == <<peaks_mz, scores>>
simVars == <<num_vectors, num_hits, sim_i, cdist_row, list_similars_ids_row,
             list_similars_row, sim_status>>
netVars == <<dimension, ncols, dist_shape, cutoff_dist, max_connections,
             min_connections, net_i, bnet_nodes, bnet_edges, ids_row, dist_row,
             new_edges, net_status, graphml, ids_rows_distinct, readded>>
vars == <<mzVars, simVars, netVars>>

\* ------------------------------------------------------------ helpers

\* seq[1..n], n capped at Len(seq): the slice seq[:n] for n >= 0
Prefix(seq, n) ==
    SubSeq(seq, 1, IF n < Len(seq) THEN n ELSE Len(seq))

\* ------------------------------------------------------------ IntersectMz

SpectrumNames == {"A", "B"}
MzValues == 1..MaxMz
NoScores == [p \in {} |-> 0]

\* every array of at most MaxPeaks mz values (duplicates allowed)
MzArrays ==
    UNION {[1..n -> MzValues] : n \in 0..MaxPeaks}

\* set(array)
SetOf(array) ==
    {array[x] : x \in DOMAIN array}

\* the float a / b, kept exact
Ratio(a, b) ==
    [num |-> a, den |-> b]

\* a plausible slip: dividing by the size of the first spectrum's set
IntersectMzOverOwn(mz_array, ref_array) ==
    LET mz == SetOf(mz_array)
        mz_ref == SetOf(ref_array)
        intersected == mz \cap mz_ref
    IN  IF Cardinality(mz \cup mz_ref) = 0
        THEN Ratio(0, 1)
        ELSE Ratio(Cardinality(intersected),
                   IF Cardinality(mz) = 0 THEN 1 ELSE Cardinality(mz))

\* IntersectMz.__call__(spectrum, reference_spectrum)
IntersectMz(mz_array, ref_array) ==
    LET mz == SetOf(mz_array)
        mz_ref == SetOf(ref_array)
        intersected == mz \cap mz_ref
        unioned == mz \cup mz_ref
    IN  IF Cardinality(unioned) = 0
        THEN Ratio(0, 1)
        ELSE Ratio(Cardinality(intersected), Cardinality(unioned))

MzIdle ==
    /\ peaks_mz = [s \in SpectrumNames |-> <<>>]
    /\ scores = NoScores

MzInit ==
    /\ peaks_mz \in [SpectrumNames -> MzArrays]
    /\ scores = NoScores

\* one call IntersectMz()(spectrum, reference_spectrum)
CallIntersectMz(s, r) ==
    /\ <<s, r>> \notin DOMAIN scores
    /\ scores' = scores @@ (<<s, r>> :> IntersectMz(peaks_mz[s], peaks_mz[r]))
    /\ UNCHANGED peaks_mz
    /\ UNCHANGED <<simVars, netVars>>

\* ------------------------------------------------- calculate_similarities

Cdistances == 0..MaxCdist

SimIdle ==
    /\ num_vectors = 0
    /\ num_hits = 0
    /\ sim_i = 0
    /\ cdist_row = <<>>
    /\ list_similars_ids_row = <<>>
    /\ list_similars_row = <<>>
    /\ sim_status = "idle"

\* Entry of calculate_similarities: N >= 1 vectors and any num_hits around 0..N.
SimInit ==
    /\ num_vectors \in 1..MaxVectors
    /\ num_hits \in (-1)..(MaxVectors + 1)
    /\ sim_i = 0
    /\ cdist_row = <<>>
    /\ list_similars_ids_row = <<>>
    /\ list_similars_row = <<>>
    /\ sim_status = "start"

\* the rows cdist[i, :] can be: one distance per column 0..n-1
CdistRows(n) ==
    [0..(n - 1) -> Cdistances]

\* a plausible slip: the row sorted in descending order
ArgsortsDescending(row, n) ==
    {p \in [1..n -> 0..(n - 1)] :
        /\ \A x, y \in 1..n : x # y => p[x] # p[y]
        /\ \A x \in 1..(n - 1) : row[p[x]] >= row[p[x + 1]]}

\* row.argsort(): numpy's default kind is "quicksort", which is not stable, so
\* the result is any permutation of the columns that sorts the row
Argsorts(row, n) ==
    {p \in [1..n -> 0..(n - 1)] :
        /\ \A x, y \in 1..n : x # y => p[x] # p[y]
        /\ \A x \in 1..(n - 1) : row[p[x]] <= row[p[x + 1]]}

\* target[i, :] = source for a target row of `width` entries: the same length
\* is copied, a length-1 source is broadcast, anything else raises ValueError
Broadcastable(width, source) ==
    Len(source) = width \/ Len(source) = 1

\* the row after the assignment
AssignRow(width, source) ==
    IF Len(source) = width THEN source
    ELSE [x \in 1..width |-> source[1]]

\* a plausible slip: the slice [1:num_hits + 1], which skips the closest column
TopHitsSkipFirst(order, hits) ==
    SubSeq(order, 2, IF hits + 1 < Len(order) THEN hits + 1 ELSE Len(order))

\* line 216: cdist[i, :].argsort()[:num_hits]
TopHits(order, hits) ==
    Prefix(order, hits)

\* line 217: 1 - cdist[i, list_similars_ids[i, :]]
Similarities(row, ids) ==
    [x \in 1..Len(ids) |-> 1 - row[ids[x]]]

\* lines 212-213: numpy.zeros((N, num_hits)) raises for a negative dimension
Allocate ==
    /\ sim_status = "start"
    /\ sim_status' = IF num_hits < 0 THEN "error" ELSE "loop"
    /\ UNCHANGED <<num_vectors, num_hits, sim_i, cdist_row,
                   list_similars_ids_row, list_similars_row>>
    /\ UNCHANGED <<mzVars, netVars>>

\* lines 215-217, one pass of the loop. cdist is computed once (line 208) and
\* row i is read by pass i alone, so the pass draws the row it reads; the two
\* result arrays are only written, row i by pass i, and the row written last
\* is kept. mean_similarity (line 209) takes no part in the loop.
SimilarRow ==
    /\ sim_status = "loop"
    /\ sim_i < num_vectors
    /\ \E row \in CdistRows(num_vectors) :
       \E order \in Argsorts(row, num_vectors) :
          LET hits == TopHits(order, num_hits)
              ids == AssignRow(num_hits, hits)
          IN  /\ cdist_row' = row
              /\ IF ~Broadcastable(num_hits, hits)
                 THEN /\ sim_status' = "error"
                      /\ UNCHANGED <<sim_i, list_similars_ids_row, list_similars_row>>
                 ELSE /\ list_similars_ids_row' = ids
                      /\ list_similars_row' = Similarities(row, ids)
                      /\ sim_i' = sim_i + 1
                      /\ UNCHANGED sim_status
    /\ UNCHANGED <<num_vectors, num_hits>>
    /\ UNCHANGED <<mzVars, netVars>>

\* line 219
SimReturn ==
    /\ sim_status = "loop"
    /\ sim_i = num_vectors
    /\ sim_status' = "returned"
    /\ UNCHANGED <<num_vectors, num_hits, sim_i, cdist_row,
                   list_similars_ids_row, list_similars_row>>
    /\ UNCHANGED <<mzVars, netVars>>

\* ------------------------------------------------ create_distance_network

Distances == 0..MaxDist
NoEdges == [p \in {} |-> 0]
NoGraph == [nodes |-> {}, edges |-> NoEdges, written |-> FALSE]

NetIdle ==
    /\ dimension = 0
    /\ ncols = 0
    /\ dist_shape = <<0, 0>>
    /\ cutoff_dist = 0
    /\ max_connections = 0
    /\ min_connections = 0
    /\ net_i = 0
    /\ bnet_nodes = {}
    /\ bnet_edges = NoEdges
    /\ ids_row = <<>>
    /\ dist_row = <<>>
    /\ new_edges = <<>>
    /\ net_status = "idle"
    /\ graphml = NoGraph
    /\ ids_rows_distinct = TRUE
    /\ readded = FALSE

\* Entry of create_distance_network, whatever the two shapes are.
NetInitShapes ==
    /\ dimension \in 1..MaxNodes
    /\ ncols \in 1..MaxCols
    /\ dist_shape \in ((dimension - 1)..(dimension + 1)) \X ((ncols - 1)..(ncols + 1))
    /\ cutoff_dist \in 1..(MaxDist + 1)
    /\ max_connections \in 0..MaxConn
    /\ min_connections \in 0..MaxConn
    /\ net_i = 0
    /\ bnet_nodes = {}
    /\ bnet_edges = NoEdges
    /\ ids_row = <<>>
    /\ dist_row = <<>>
    /\ new_edges = <<>>
    /\ net_status = "start"
    /\ graphml = NoGraph
    /\ ids_rows_distinct = TRUE
    /\ readded = FALSE

\* Entry with cdistances of the shape of cdistances_ids.
NetInit ==
    /\ NetInitShapes
    /\ dist_shape = <<dimension, ncols>>

\* the rows cdistances_ids[i, :] can be: a node id per column 0..k-1
IdsRows(n, k) ==
    [0..(k - 1) -> 0..(n - 1)]

\* the rows cdistances[i, :] can be
DistRows(k) ==
    [0..(k - 1) -> Distances]

\* a plausible slip: arange(1, dimension)
NodeRangeFromOne(n) ==
    1..(n - 1)

\* line 102: np.arange(0, dimension)
NodeRange(n) ==
    0..(n - 1)

\* line 106: np.where(cdistances[i, :] < cutoff_dist)[0], ascending columns
BelowCutoff(row, k, cutoff) ==
    LET Below(x) == row[x] < cutoff
    IN  SelectSeq([x \in 1..k |-> x - 1], Below)

\* lines 107-108
Truncate(idx, maxc) ==
    IF Len(idx) > maxc THEN Prefix(idx, maxc + 1) ELSE idx

\* a plausible slip: np.arange(0, min_connections)
FallbackShort(idx, minc) ==
    IF Len(idx) <= minc THEN [x \in 1..minc |-> x - 1] ELSE idx

\* a plausible slip: < in place of <= in line 109
FallbackStrict(idx, minc) ==
    IF Len(idx) < minc THEN [x \in 1..(minc + 1) |-> x - 1] ELSE idx

\* lines 109-110: np.arange(0, min_connections + 1)
Fallback(idx, minc) ==
    IF Len(idx) <= minc THEN [x \in 1..(minc + 1) |-> x - 1] ELSE idx

\* idx as line 111 reads it
Candidates(row, k, cutoff, maxc, minc) ==
    Fallback(Truncate(BelowCutoff(row, k, cutoff), maxc), minc)

\* line 111-112 raises IndexError: cdistances_ids[i, x] is read for every x of
\* idx, cdistances[i, x] only where cdistances_ids[i, x] != i
IndexError(i, idx, ids, k, dcols) ==
    \E y \in 1..Len(idx) :
        \/ idx[y] >= k
        \/ ids[idx[y]] # i /\ idx[y] >= dcols

\* a plausible slip: the filter of line 112 left out
NewEdgesUnfiltered(i, idx, ids, dist) ==
    [y \in 1..Len(idx) |-> <<i, ids[idx[y]], dist[idx[y]]>>]

\* lines 111-112: (i, cdistances_ids[i, x], cdistances[i, x]) for x in idx
NewEdges(i, idx, ids, dist) ==
    LET Other(x) == ids[x] # i
        kept == SelectSeq(idx, Other)
    IN  [y \in 1..Len(kept) |-> <<i, ids[kept[y]], dist[kept[y]]>>]

\* Graph.add_edge(u, v, weight=w): one entry per unordered pair, last write wins
AddEdge(edges, e) ==
    [p \in DOMAIN edges \cup {{e[1], e[2]}} |->
        IF p = {e[1], e[2]} THEN e[3] ELSE edges[p]]

RECURSIVE AddWeightedEdgesFrom(_, _)
\* line 113: Graph.add_weighted_edges_from(new_edges), the edges part
AddWeightedEdgesFrom(edges, ebunch) ==
    IF ebunch = <<>> THEN edges
    ELSE AddWeightedEdgesFrom(AddEdge(edges, Head(ebunch)), Tail(ebunch))

\* line 113, the nodes part: an edge's endpoints become nodes
EdgeNodes(ebunch) ==
    UNION {{ebunch[y][1], ebunch[y][2]} : y \in 1..Len(ebunch)}

Distinct(ids, k) ==
    \A x, y \in 0..(k - 1) : x # y => ids[x] # ids[y]

\* lines 98-102
FormNetwork ==
    /\ net_status = "start"
    /\ bnet_nodes' = NodeRange(dimension)
    /\ bnet_edges' = NoEdges
    /\ net_status' = "loop"
    /\ UNCHANGED <<dimension, ncols, dist_shape, cutoff_dist, max_connections,
                   min_connections, net_i, ids_row, dist_row, new_edges, graphml,
                   ids_rows_distinct, readded>>
    /\ UNCHANGED <<mzVars, simVars>>

\* lines 104-113, one pass of the loop for node i = net_i. Neither matrix is
\* written and row i of each is read by pass i alone, so the pass draws the
\* rows it reads. An exception leaves the function: nothing is returned.
ConnectNode ==
    /\ net_status = "loop"
    /\ net_i < dimension
    /\ IF net_i >= dist_shape[1]
       THEN /\ net_status' = "error"
            /\ UNCHANGED <<net_i, bnet_nodes, bnet_edges, ids_row, dist_row,
                           new_edges, ids_rows_distinct, readded>>
       ELSE \E ids \in IdsRows(dimension, ncols) :
            \E dist \in DistRows(dist_shape[2]) :
               LET idx == Candidates(dist, dist_shape[2], cutoff_dist,
                                     max_connections, min_connections)
               IN  /\ ids_row' = ids
                   /\ dist_row' = dist
                   /\ ids_rows_distinct' = (ids_rows_distinct /\ Distinct(ids, ncols))
                   /\ IF IndexError(net_i, idx, ids, ncols, dist_shape[2])
                      THEN /\ net_status' = "error"
                           /\ UNCHANGED <<net_i, bnet_nodes, bnet_edges, new_edges,
                                          readded>>
                      ELSE LET added == NewEdges(net_i, idx, ids, dist)
                           IN  /\ new_edges' = added
                               /\ bnet_edges' = AddWeightedEdgesFrom(bnet_edges, added)
                               /\ bnet_nodes' = bnet_nodes \cup EdgeNodes(added)
                               /\ readded' = (\E y \in 1..Len(added) :
                                                {added[y][1], added[y][2]}
                                                    \in DOMAIN bnet_edges)
                               /\ net_i' = net_i + 1
                               /\ UNCHANGED net_status
    /\ UNCHANGED <<dimension, ncols, dist_shape, cutoff_dist, max_connections,
                   min_connections, graphml>>
    /\ UNCHANGED <<mzVars, simVars>>

\* lines 117-118: nx.write_graphml(bnet, filename); return bnet
WriteGraphml ==
    /\ net_status = "loop"
    /\ net_i = dimension
    /\ graphml' = [nodes |-> bnet_nodes, edges |-> bnet_edges, written |-> TRUE]
    /\ net_status' = "returned"
    /\ UNCHANGED <<dimension, ncols, dist_shape, cutoff_dist, max_connections,
                   min_connections, net_i, bnet_nodes, bnet_edges, ids_row,
                   dist_row, new_edges, ids_rows_distinct, readded>>
    /\ UNCHANGED <<mzVars, simVars>>

\* ------------------------------------------------------- specifications

InitMz ==
    MzInit /\ SimIdle /\ NetIdle

NextMz ==
    \E s \in SpectrumNames, r \in SpectrumNames : CallIntersectMz(s, r)

SpecMz ==
    InitMz /\ [][NextMz]_vars

InitSim ==
    SimInit /\ MzIdle /\ NetIdle

NextSim ==
    \/ Allocate
    \/ SimilarRow
    \/ SimReturn

SpecSim ==
    InitSim /\ [][NextSim]_vars

InitNet ==
    NetInit /\ MzIdle /\ SimIdle

NextNet ==
    \/ FormNetwork
    \/ ConnectNode
    \/ WriteGraphml

SpecNet ==
    InitNet /\ [][NextNet]_vars

InitNetShapes ==
    NetInitShapes /\ MzIdle /\ SimIdle

SpecNetShapes ==
    InitNetShapes /\ [][NextNet]_vars

\* ------------------------------------------------- claims: IntersectMz

\* how many mz values occur in both arrays / in either array, counted over the
\* value domain and not through the sets the code builds
InBoth(a, b) ==
    Cardinality({v \in MzValues :
        (\E x \in DOMAIN a : a[x] = v) /\ (\E y \in DOMAIN b : b[y] = v)})

InEither(a, b) ==
    Cardinality({v \in MzValues :
        (\E x \in DOMAIN a : a[x] = v) \/ (\E y \in DOMAIN b : b[y] = v)})

\* C3: every score returned for (s, r) is the fraction |mz s /\ mz r| over
\* |mz s \/ mz r| with duplicates counted once, 0 when both are empty, within
\* [0, 1], 1 for a non-empty spectrum against itself, 0 for disjoint mz sets,
\* and equal to the score returned for (r, s).
C3_Jaccard ==
    \A p \in DOMAIN scores :
        LET a == peaks_mz[p[1]]
            b == peaks_mz[p[2]]
            got == scores[p]
        IN  /\ got.den > 0
            /\ 0 <= got.num /\ got.num <= got.den
            /\ IF InEither(a, b) = 0
               THEN got.num = 0
               ELSE got.num * InEither(a, b) = InBoth(a, b) * got.den
            /\ (p[1] = p[2] /\ Len(a) > 0) => got.num = got.den
            /\ InBoth(a, b) = 0 => got.num = 0
            /\ <<p[2], p[1]>> \in DOMAIN scores =>
                   got.num * scores[<<p[2], p[1]>>].den
                       = scores[<<p[2], p[1]>>].num * got.den

\* both orders and the self comparison were scored, for two spectra that
\* overlap in part and of which one repeats an mz value
C3_Witness ==
    /\ DOMAIN scores = SpectrumNames \X SpectrumNames
    /\ peaks_mz["A"] # peaks_mz["B"]
    /\ Len(peaks_mz["A"]) = 2 /\ peaks_mz["A"][1] = peaks_mz["A"][2]
    /\ 0 < scores[<<"A", "B">>].num
    /\ scores[<<"A", "B">>].num < scores[<<"A", "B">>].den
    /\ scores[<<"A", "A">>].num = scores[<<"A", "A">>].den

\* --------------------------------------- claims: calculate_similarities

\* a pass of the loop has filled a row; it is row sim_i - 1
RowDone ==
    sim_status \in {"loop", "returned"} /\ sim_i > 0

ValidHits ==
    1 <= num_hits /\ num_hits <= num_vectors

HitIds ==
    {list_similars_ids_row[x] : x \in 1..Len(list_similars_ids_row)}

\* C2: for 1 <= k <= N each filled row holds exactly k distinct column ids, in
\* order of non-decreasing distance, no column left out is closer than one
\* kept, and the scores are 1 - distance, non-increasing along the row.
C2_TopK ==
    (RowDone /\ ValidHits) =>
        /\ Len(list_similars_ids_row) = num_hits
        /\ Len(list_similars_row) = num_hits
        /\ HitIds \subseteq 0..(num_vectors - 1)
        /\ Cardinality(HitIds) = num_hits
        /\ \A x \in 1..(num_hits - 1) :
               /\ cdist_row[list_similars_ids_row[x]]
                      <= cdist_row[list_similars_ids_row[x + 1]]
               /\ list_similars_row[x] >= list_similars_row[x + 1]
        /\ \A x \in 1..num_hits :
               /\ list_similars_row[x] = 1 - cdist_row[list_similars_ids_row[x]]
               /\ \A c \in (0..(num_vectors - 1)) \ HitIds :
                      cdist_row[list_similars_ids_row[x]] <= cdist_row[c]

\* a row of three columns with a tie and a strictly farther column, k = 2
C2_Witness ==
    /\ RowDone
    /\ num_vectors = 3 /\ num_hits = 2
    /\ cdist_row[list_similars_ids_row[1]] = cdist_row[list_similars_ids_row[2]]
    /\ \E c \in 0..2 : cdist_row[c] > cdist_row[list_similars_ids_row[2]]

\* C7 as claimed: no call with k > N or k < 1 returns.
C7_InvalidHitsRaise ==
    (num_hits > num_vectors \/ num_hits < 1) => sim_status # "returned"

\* the argsort that breaks ties by lower index first
StableArgsort(row, n) ==
    CHOOSE p \in Argsorts(row, n) :
        \A x \in 1..(n - 1) : row[p[x]] = row[p[x + 1]] => p[x] < p[x + 1]

\* the row just filled is row i's, its self-distance is 0
ZeroSelfDistance ==
    RowDone /\ ValidHits /\ cdist_row[sim_i - 1] = 0

\* C9 as claimed: with a zero self-distance and ties broken by lower index
\* first, row i's ids contain i.
C9_SelfAlwaysKept ==
    (/\ ZeroSelfDistance
     /\ list_similars_ids_row
            = Prefix(StableArgsort(cdist_row, num_vectors), num_hits))
        => (sim_i - 1) \in HitIds

\* C9 amended: with a zero self-distance, row i's ids contain i whenever fewer
\* than k other columns of the row are at distance 0, whatever the tie order.
C9_SelfKeptUnlessTied ==
    (/\ ZeroSelfDistance
     /\ Cardinality({c \in 0..(num_vectors - 1) :
                        c # sim_i - 1 /\ cdist_row[c] = 0}) < num_hits)
        => (sim_i - 1) \in HitIds

\* row 2 of three, one other column tied at 0, k = 2: i is kept, and it is
\* not the first id listed
C9_Witness ==
    /\ ZeroSelfDistance
    /\ num_vectors = 3 /\ num_hits = 2 /\ sim_i = 3
    /\ Cardinality({c \in 0..2 : cdist_row[c] = 0}) = 2
    /\ list_similars_ids_row[2] = 2

\* -------------------------------------- claims: create_distance_network

\* a pass of the loop has run; it is node net_i - 1's, and ids_row, dist_row
\* and new_edges are that node's
NodeDone ==
    net_status \in {"loop", "returned"} /\ net_i > 0

\* the number of columns of the node's row below the cutoff
BelowCount ==
    Cardinality({x \in DOMAIN dist_row : dist_row[x] < cutoff_dist})

\* the nodes the pass connected the node to
Endpoints ==
    {new_edges[y][2] : y \in 1..Len(new_edges)}

Degree(edges, n) ==
    Cardinality({e \in DOMAIN edges : n \in e})

\* C1: from the moment the graph is formed, after every pass and in the graph
\* returned, the node set is exactly 0..N-1.
C1_NodeSet ==
    /\ net_status \in {"loop", "returned"} => bnet_nodes = 0..(dimension - 1)
    /\ net_status = "returned" => graphml.nodes = 0..(dimension - 1)

\* a returned graph of three nodes with an edge and an isolated node
C1_Witness ==
    /\ net_status = "returned"
    /\ dimension = 3
    /\ DOMAIN graphml.edges # {}
    /\ \E n \in graphml.nodes : Degree(graphml.edges, n) = 0

\* C4 as claimed, for a cap of at least one edge: a pass without the fallback
\* connects the node to at most max_connections nodes.
C4_AtMostMaxConnections ==
    (/\ NodeDone
     /\ max_connections >= 1
     /\ BelowCount > min_connections
     /\ Len(Truncate(BelowCutoff(dist_row, dist_shape[2], cutoff_dist),
                     max_connections)) > min_connections)
        => Cardinality(Endpoints) <= max_connections

\* C5 as claimed, for min_connections < N: a pass with at most min_connections
\* columns below the cutoff connects the node to the node ids
\* 0..min_connections, itself left out.
C5_FallbackLiteralIds ==
    (NodeDone /\ BelowCount <= min_connections /\ min_connections < dimension)
        => Endpoints = (0..min_connections) \ {net_i - 1}

\* C5 amended: such a pass (the columns 0..min_connections exist, or it would
\* have raised) connects the node to the entries of its neighbor-id row in
\* columns 0..min_connections, itself left out, each with the distance of that
\* column.
C5_FallbackRowEntries ==
    (NodeDone /\ BelowCount <= min_connections)
        => /\ min_connections < ncols
           /\ Endpoints
                  = {ids_row[x] : x \in 0..min_connections} \ {net_i - 1}
           /\ \A y \in 1..Len(new_edges) :
                  \E x \in 0..min_connections :
                      new_edges[y] = <<net_i - 1, ids_row[x], dist_row[x]>>

\* a fallback pass whose endpoints are not the ids 0..min_connections
C5_Witness ==
    /\ NodeDone
    /\ BelowCount = 0
    /\ min_connections = 1
    /\ Cardinality(Endpoints) = 1
    /\ Endpoints # (0..min_connections) \ {net_i - 1}

\* C6 as claimed: no call with min_connections >= N, or with matrices of
\* different shapes, returns a graph.
C6_InvalidInputRaises ==
    (min_connections >= dimension \/ dist_shape # <<dimension, ncols>>)
        => (net_status # "returned" /\ graphml = NoGraph)

\* the columns of the node's row that line 111 turns into the edge e
ColumnsOf(e, node, ids, dist) ==
    LET idx == Candidates(dist, dist_shape[2], cutoff_dist, max_connections,
                          min_connections)
    IN  {x \in {idx[y] : y \in 1..Len(idx)} : ids[x] # node /\ e = {node, ids[x]}}

\* no edge is a self-loop, and every edge joins two nodes of the graph
NoSelfLoops ==
    \A e \in DOMAIN bnet_edges : Cardinality(e) = 2 /\ e \subseteq bnet_nodes

\* what a pass does to the edges: none is removed; an edge the pass does not
\* name keeps its weight; an edge it names carries a distance the row supplies
\* for that pair, and keeps its weight when the row supplies only the weight
\* it had (the distances of the two rows agree)
PassKeepsWeights ==
    net_i' = net_i + 1 =>
        /\ DOMAIN bnet_edges \subseteq DOMAIN bnet_edges'
        /\ \A e \in DOMAIN bnet_edges' :
               LET cols == ColumnsOf(e, net_i, ids_row', dist_row')
               IN  IF cols = {}
                   THEN e \in DOMAIN bnet_edges /\ bnet_edges'[e] = bnet_edges[e]
                   ELSE /\ \E x \in cols : bnet_edges'[e] = dist_row'[x]
                        /\ (/\ e \in DOMAIN bnet_edges
                            /\ \A x \in cols : dist_row'[x] = bnet_edges[e])
                               => bnet_edges'[e] = bnet_edges[e]

\* C8: no self-loops, one weighted edge per unordered pair, its weight a
\* distance supplied for that pair, unchanged when the second endpoint's pass
\* adds it again with the same distance.
C8_EdgeWeights ==
    []NoSelfLoops /\ [][PassKeepsWeights]_vars

\* a pass whose row holds the node's own id wrote an edge that existed
C8_Witness ==
    /\ NodeDone
    /\ readded
    /\ \E x \in DOMAIN ids_row : ids_row[x] = net_i - 1
    /\ Len(new_edges) > 0

\* C10: given matrices of one shape with more than min_connections columns,
\* rows without repeated ids and max_connections >= min_connections, every
\* node of the returned graph has at least min_connections edges.
C10_MinDegree ==
    (/\ net_status = "returned"
     /\ dist_shape = <<dimension, ncols>>
     /\ ids_rows_distinct
     /\ ncols > min_connections
     /\ max_connections >= min_connections)
        => \A n \in graphml.nodes :
               Degree(graphml.edges, n) >= min_connections

\* such a graph with min_connections = 1 in which a node has exactly one edge
\* and the last pass was cut to max_connections + 1 candidates
C10_Witness ==
    /\ net_status = "returned"
    /\ ids_rows_distinct
    /\ dimension = 3 /\ ncols = 2
    /\ min_connections = 1 /\ max_connections = 1
    /\ BelowCount = 2
    /\ \E n \in graphml.nodes : Degree(graphml.edges, n) = 1

====
